---- MODULE Spec2Model ----
(***************************************************************************)
(* TikTok-style captions: the caption box of script.js (the text-change    *)
(* handler that rebuilds the .line elements and applyCornerDetection that  *)
(* decorates adjacent lines).                                              *)
(*                                                                         *)
(* Strings are tuples of one-character strings.  The loop index i is the   *)
(* 0-based JavaScript index; box[i + 1] is lines[i].                       *)
(***************************************************************************)
EXTENDS Integers, Sequences, FiniteSets, TLC

VARIABLES text, align, box, pc, i, calls

vars == <<text, align, box, pc, i, calls>>

(* ------------------------------ bounds --------------------------------- *)

\* longest textarea value of the caption page
MaxTextLen == 2
\* longest one-line textarea value of the line-construction page
MaxLineLen == 4
\* widest measured line (px)
MaxWidth == 2
\* largest measured corner radius (px)
MaxRadius == 1
\* direct calls of applyCornerDetection on one set of lines
MaxCalls == 1

(* ------------------------------ inputs --------------------------------- *)

NL == "\n"
Pipe == "|"

Digits == {"0", "1", "2"}
WhiteSpace == {" "}

TextAlphabet == {"a", NL}
LineAlphabet == {"a", Pipe, "-", ".", "0", "2"}

SeqsUpTo(S, n) == UNION {[1..k -> S] : k \in 0..n}

TextInputs == SeqsUpTo(TextAlphabet, MaxTextLen)
LineInputs == SeqsUpTo(LineAlphabet, MaxLineLen)

Alignments == {"left", "center", "right"}

Widths == 0..MaxWidth
Radii == 0..MaxRadius

(* ----------------------- String.prototype.split ------------------------ *)

RECURSIVE IndexOf(_, _, _)
\* position of the first d in s at or after k, 0 when there is none
IndexOf(s, d, k) ==
  IF k > Len(s) THEN 0
  ELSE IF s[k] = d THEN k
  ELSE IndexOf(s, d, k + 1)

RECURSIVE Split(_, _)
\* s.split(d): every piece between delimiters, empty pieces included
Split(s, d) ==
  LET k == IndexOf(s, d, 1) IN
  IF k = 0 THEN <<s>>
  ELSE <<SubSeq(s, 1, k - 1)>> \o Split(SubSeq(s, k + 1, Len(s)), d)

(* ------------------------------ parseFloat ----------------------------- *)
(* A number is kept exactly: sign, integer digits without leading zeros,   *)
(* fraction digits without trailing zeros.  The inputs carry no exponent,  *)
(* no "Infinity" and no "+", so those parts of the grammar are left out.   *)

NaN == [nan |-> TRUE, neg |-> FALSE, int |-> <<>>, frac |-> <<>>]
One == [nan |-> FALSE, neg |-> FALSE, int |-> <<"1">>, frac |-> <<>>]

RECURSIVE SkipWhile(_, _, _)
\* first position at or after k whose character is not in S
SkipWhile(s, S, k) ==
  IF k <= Len(s) /\ s[k] \in S THEN SkipWhile(s, S, k + 1) ELSE k

RECURSIVE StripLeadingZeros(_)
StripLeadingZeros(ds) ==
  IF ds # <<>> /\ Head(ds) = "0" THEN StripLeadingZeros(Tail(ds)) ELSE ds

RECURSIVE StripTrailingZeros(_)
StripTrailingZeros(ds) ==
  IF ds # <<>> /\ ds[Len(ds)] = "0"
  THEN StripTrailingZeros(SubSeq(ds, 1, Len(ds) - 1))
  ELSE ds

\* parseFloat(s) of a string s: leading white space skipped, then the longest
\* prefix  [-] digits [. digits]  or  [-] . digits ; NaN when it has no digit
ParseFloat(s) ==
  LET start == SkipWhile(s, WhiteSpace, 1)
      neg == start <= Len(s) /\ s[start] = "-"
      intFrom == IF neg THEN start + 1 ELSE start
      intTo == SkipWhile(s, Digits, intFrom)
      hasDot == intTo <= Len(s) /\ s[intTo] = "."
      fracTo == IF hasDot THEN SkipWhile(s, Digits, intTo + 1) ELSE intTo
      intDigits == SubSeq(s, intFrom, intTo - 1)
      fracDigits == IF hasDot THEN SubSeq(s, intTo + 1, fracTo - 1) ELSE <<>>
  IN IF intDigits = <<>> /\ fracDigits = <<>> THEN NaN
     ELSE [nan |-> FALSE, neg |-> neg,
           int |-> StripLeadingZeros(intDigits),
           frac |-> StripTrailingZeros(fracDigits)]

\* JavaScript truthiness of a number: NaN, 0 and -0 are falsy
Truthy(n) == ~n.nan /\ (n.int # <<>> \/ n.frac # <<>>)

\* x || 1
OrOne(n) == IF Truthy(n) THEN n ELSE One

\* let [lineText, lineScale] = line.split("|"); lineScale = parseFloat(lineScale) || 1
\* (parseFloat(undefined) is NaN)
LineText(line) == Split(line, Pipe)[1]

ScaleSuffix(line) ==
  LET parts == Split(line, Pipe) IN
  IF Len(parts) >= 2 THEN <<parts[2]>> ELSE <<>>

LineScale(line) ==
  LET suffix == ScaleSuffix(line) IN
  OrOne(IF suffix = <<>> THEN NaN ELSE ParseFloat(suffix[1]))

(* --------------------------- .line elements ---------------------------- *)

\* document.createElement("div") with className "line", textContent and
\* --font-scale set; w and r are what layout gives it: its natural
\* (fit-content) width and --border-radius times its font size
LineEl(line, w, r) ==
  [text |-> LineText(line), scale |-> LineScale(line),
   naturalWidth |-> w, borderRadius |-> r,
   classes |-> {}, styleWidth |-> <<>>]

\* el.offsetWidth: the width written to style.width once one is written, the
\* natural (fit-content) width before.  The box of a .line is taken to be
\* exactly as wide as its style.width says.
OffsetWidth(el) ==
  IF el.styleWidth = <<>> THEN el.naturalWidth ELSE el.styleWidth[1]

(* ----------------------- applyCornerDetection -------------------------- *)

\* faulty variant: the doubling applied to left alignment instead of center
ToleranceLeftDoubled(al, borderRadius) ==
  IF al = "left" THEN borderRadius * 2 ELSE borderRadius

Tolerance(al, borderRadius) ==
  IF al = "center" THEN borderRadius * 2 ELSE borderRadius

\* faulty variant: the smaller of the two widths
MaxAsMin(a, b) == IF a >= b THEN b ELSE a

\* faulty variant: the width of the current line alone
MaxAsSecond(a, b) == b

Max(a, b) == IF a >= b THEN a ELSE b

\* Scenario 1: this line is narrower than last line
IsNarrower(lastLine, thisLine, al) ==
  OffsetWidth(lastLine) - Tolerance(al, lastLine.borderRadius)
    >= OffsetWidth(thisLine) + Tolerance(al, thisLine.borderRadius)

\* Scenario 2: this line is wider than last line
IsWider(lastLine, thisLine, al) ==
  OffsetWidth(lastLine) + Tolerance(al, lastLine.borderRadius)
    <= OffsetWidth(thisLine) - Tolerance(al, thisLine.borderRadius)

Scenario(lastLine, thisLine, al) ==
  IF IsNarrower(lastLine, thisLine, al) THEN "narrower"
  ELSE IF IsWider(lastLine, thisLine, al) THEN "wider"
  ELSE "similar"

\* faulty variant: the skipped sides exchanged
TopCornersSwapped(al) ==
  (IF al # "right" THEN {"corner-tl"} ELSE {})
    \cup (IF al # "left" THEN {"corner-tr"} ELSE {})

TopCorners(al) ==
  (IF al # "left" THEN {"corner-tl"} ELSE {})
    \cup (IF al # "right" THEN {"corner-tr"} ELSE {})

\* faulty variant: both bottom corners whatever the alignment
BottomCornersBoth(al) == {"corner-bl", "corner-br"}

BottomCorners(al) ==
  (IF al # "left" THEN {"corner-bl"} ELSE {})
    \cup (IF al # "right" THEN {"corner-br"} ELSE {})

AddClasses(el, cs) == [el EXCEPT !.classes = @ \cup cs]

\* faulty variant: the class added, the width never written
ConnectClassOnly(el, cls, width) == [el EXCEPT !.classes = @ \cup {cls}]

\* classList.add(cls); style.width = width + "px"
Connect(el, cls, width) ==
  [el EXCEPT !.classes = @ \cup {cls}, !.styleWidth = <<width>>]

\* faulty variant: a line taken as its own previous sibling
LastLineOfSelf(k) == k + 1

\* 1-based position of lines[k].previousElementSibling, 0 for null
LastLineOf(k) == k

\* one iteration of the loop of applyCornerDetection, at 0-based index k
Iteration(b, al, k) ==
  IF LastLineOf(k) = 0 THEN b
  ELSE
    LET thisLine == b[k + 1]
        lastLine == b[LastLineOf(k)]
        scenario == Scenario(lastLine, thisLine, al)
    IN IF scenario = "narrower"
       THEN [b EXCEPT ![k + 1] = AddClasses(@, TopCorners(al))]
       ELSE IF scenario = "wider"
       THEN [b EXCEPT ![LastLineOf(k)] = AddClasses(@, BottomCorners(al))]
       ELSE LET width == Max(OffsetWidth(lastLine), OffsetWidth(thisLine)) IN
            [b EXCEPT ![LastLineOf(k)] = Connect(@, "connect-b", width),
                      ![k + 1] = Connect(@, "connect-t", width)]

RECURSIVE PassFrom(_, _, _)
PassFrom(b, al, k) ==
  IF k >= Len(b) THEN b ELSE PassFrom(Iteration(b, al, k), al, k + 1)

\* a whole call of applyCornerDetection on the lines b
ApplyCornerDetection(b, al) == PassFrom(b, al, 0)

(* ------------------------------ the page -------------------------------- *)

\* the page before its first render: no line in the box
Init ==
  /\ text \in TextInputs
  /\ align \in Alignments
  /\ box = <<>>
  /\ pc = "idle"
  /\ i = 0
  /\ calls = 0

\* textEl.onchange, entered with the textarea holding t: removeAllChildNodes
OnChange(t) ==
  /\ text' = t
  /\ box' = <<>>
  /\ pc' = "build"
  /\ i' = 0
  /\ calls' = 0

\* change event of the textarea
TextChange ==
  /\ pc = "idle"
  /\ \E t \in TextInputs : OnChange(t)
  /\ UNCHANGED align

\* textEl.onkeyup = textEl.onchange
KeyUp ==
  /\ pc = "idle"
  /\ \E t \in TextInputs : OnChange(t)
  /\ UNCHANGED align

\* faulty variant: data-align set, the change event never dispatched
AlignChangeOnly ==
  /\ pc = "idle"
  /\ \E a \in Alignments : align' = a
  /\ UNCHANGED <<text, box, pc, i, calls>>

\* change of an alignment radio button: sets data-align and dispatches change
AlignChange ==
  /\ pc = "idle"
  /\ \E a \in Alignments : align' = a
  /\ OnChange(text)

\* one iteration of the loop that builds the lines
BuildStep ==
  /\ pc = "build"
  /\ i < Len(Split(text, NL))
  /\ \E w \in Widths, r \in Radii :
       box' = Append(box, LineEl(Split(text, NL)[i + 1], w, r))
  /\ i' = i + 1
  /\ UNCHANGED <<text, align, pc, calls>>

\* the loop is over: the handler calls applyCornerDetection()
BuildDone ==
  /\ pc = "build"
  /\ i >= Len(Split(text, NL))
  /\ pc' = "detect"
  /\ i' = 0
  /\ UNCHANGED <<text, align, box, calls>>

\* applyCornerDetection() called on the lines as they are (module.exports)
CallApplyCornerDetection ==
  /\ pc = "idle"
  /\ box # <<>>
  /\ calls < MaxCalls
  /\ pc' = "detect"
  /\ i' = 0
  /\ calls' = calls + 1
  /\ UNCHANGED <<text, align, box>>

DetectStep ==
  /\ pc = "detect"
  /\ i < Len(box)
  /\ box' = Iteration(box, align, i)
  /\ i' = i + 1
  /\ UNCHANGED <<text, align, pc, calls>>

DetectDone ==
  /\ pc = "detect"
  /\ i >= Len(box)
  /\ pc' = "idle"
  /\ i' = 0
  /\ UNCHANGED <<text, align, box, calls>>

Next ==
  \/ TextChange
  \/ KeyUp
  \/ AlignChange
  \/ BuildStep
  \/ BuildDone
  \/ CallApplyCornerDetection
  \/ DetectStep
  \/ DetectDone

Spec == Init /\ [][Next]_vars

(* ------------------- line construction on its own ---------------------- *)
(* The page holding a one-line textarea value over a richer alphabet, and   *)
(* its initial render: textEl.dispatchEvent(new Event("change")).           *)

InitLine ==
  /\ text \in LineInputs
  /\ align \in Alignments
  /\ box = <<>>
  /\ pc = "idle"
  /\ i = 0
  /\ calls = 0

InitialRender ==
  /\ pc = "idle"
  /\ calls = 0
  /\ box = <<>>
  /\ OnChange(text)
  /\ UNCHANGED align

NextLine ==
  \/ InitialRender
  \/ BuildStep
  \/ BuildDone
  \/ DetectStep
  \/ DetectDone

SpecLine == InitLine /\ [][NextLine]_vars

(* ======================= properties of the code ======================== *)

\* the loop of applyCornerDetection is about to process the pair
\* (lastLine = box[i], thisLine = box[i + 1])
AtPair == pc = "detect" /\ i >= 1 /\ i < Len(box)

\* the tolerance of a line as the specification words it
TolOf(el) == el.borderRadius * (IF align = "center" THEN 2 ELSE 1)

\* the conditions of Case A and Case B on the widths the pass reads
CaseA(prev, curr) == OffsetWidth(prev) - TolOf(prev) >= OffsetWidth(curr) + TolOf(curr)
CaseB(prev, curr) == OffsetWidth(prev) + TolOf(prev) <= OffsetWidth(curr) - TolOf(curr)

CornerFlags == {"corner-tl", "corner-tr", "corner-bl", "corner-br"}
TopFlags == {"corner-tl", "corner-tr"}
BottomFlags == {"corner-bl", "corner-br"}

OthersUnchanged ==
  /\ Len(box') = Len(box)
  /\ \A k \in 1..Len(box) : k \notin {i, i + 1} => box'[k] = box[k]

\* the first pass over freshly built lines has ended
FirstPassDone == pc = "idle" /\ box # <<>> /\ calls = 0

\* lines k and k + 1 were classified as connected
Connected(k) ==
  "connect-b" \in box[k].classes /\ "connect-t" \in box[k + 1].classes

(* C1 -- Case A (current narrower): whenever the pair about to be processed
   has prev.width - prevTolerance >= curr.width + currTolerance (the widths
   being those the pass reads, the tolerance the corner radius, doubled under
   center), processing it leaves curr with roundTopLeft = (alignment # left)
   and roundTopRight = (alignment # right), and changes neither line's forced
   width nor any bottom-corner or connect flag; prev is left as it was. *)
C1_CaseA ==
  [][ (AtPair /\ CaseA(box[i], box[i + 1])) =>
        /\ ("corner-tl" \in box'[i + 1].classes) = (align # "left")
        /\ ("corner-tr" \in box'[i + 1].classes) = (align # "right")
        /\ box'[i + 1].classes \ TopFlags = box[i + 1].classes \ TopFlags
        /\ box'[i + 1].styleWidth = box[i + 1].styleWidth
        /\ box'[i] = box[i]
        /\ OthersUnchanged ]_vars

\* a left-aligned pair was just processed as Case A: curr has its top right
\* corner rounded and not its top left one
C1_Witness ==
  /\ pc = "detect" /\ i >= 2 /\ align = "left"
  /\ CaseA(box[i - 1], box[i])
  /\ box[i].classes = {"corner-tr"}
  /\ box[i].styleWidth = <<>>
  /\ box[i - 1].classes = {}

(* C2 -- Case B (current wider): whenever the pair about to be processed is
   not Case A and has prev.width + prevTolerance <= curr.width - currTolerance,
   processing it leaves prev with roundBottomLeft = (alignment # left) and
   roundBottomRight = (alignment # right), and changes neither line's forced
   width nor any top-corner or connect flag; curr is left as it was. *)
C2_CaseB ==
  [][ (AtPair /\ ~CaseA(box[i], box[i + 1]) /\ CaseB(box[i], box[i + 1])) =>
        /\ ("corner-bl" \in box'[i].classes) = (align # "left")
        /\ ("corner-br" \in box'[i].classes) = (align # "right")
        /\ box'[i].classes \ BottomFlags = box[i].classes \ BottomFlags
        /\ box'[i].styleWidth = box[i].styleWidth
        /\ box'[i + 1] = box[i + 1]
        /\ OthersUnchanged ]_vars

\* a right-aligned pair was just processed as Case B: prev has its bottom left
\* corner rounded and not its bottom right one
C2_Witness ==
  /\ pc = "detect" /\ i >= 2 /\ align = "right"
  /\ ~CaseA(box[i - 1], box[i]) /\ CaseB(box[i - 1], box[i])
  /\ box[i - 1].classes = {"corner-bl"}
  /\ box[i - 1].styleWidth = <<>>
  /\ box[i].classes = {}

(* C3 -- Case C (welded): whenever the pair about to be processed satisfies
   neither the Case A nor the Case B condition, processing it gives both
   lines the forced width max(prev.width, curr.width) (the widths the pass
   reads), marks prev connected at its bottom and curr at its top, and sets
   no rounded-corner flag on either line. *)
C3_CaseC ==
  [][ (AtPair /\ ~CaseA(box[i], box[i + 1]) /\ ~CaseB(box[i], box[i + 1])) =>
        LET forcedWidth ==
              IF OffsetWidth(box[i]) >= OffsetWidth(box[i + 1])
              THEN OffsetWidth(box[i]) ELSE OffsetWidth(box[i + 1])
        IN /\ box'[i].styleWidth = <<forcedWidth>>
           /\ box'[i + 1].styleWidth = <<forcedWidth>>
           /\ box'[i].classes = box[i].classes \cup {"connect-b"}
           /\ box'[i + 1].classes = box[i + 1].classes \cup {"connect-t"}
           /\ OthersUnchanged ]_vars

\* a pair of different natural widths was just welded at the larger one
C3_Witness ==
  /\ pc = "detect" /\ i >= 2 /\ calls = 0
  /\ box[i - 1].naturalWidth < box[i].naturalWidth
  /\ box[i - 1].classes = {"connect-b"}
  /\ box[i].classes = {"connect-t"}
  /\ box[i - 1].styleWidth = <<box[i].naturalWidth>>
  /\ box[i].styleWidth = <<box[i].naturalWidth>>

(* C4 -- two adjacent lines of exactly equal measured width, both of corner
   radius 0: processing the pair welds them under every alignment (connect-b
   on prev, connect-t on curr, both forced to the shared width) and sets no
   rounding flag. *)
C4_EqualWidthsWeld ==
  [][ (/\ AtPair
       /\ box[i].styleWidth = <<>> /\ box[i + 1].styleWidth = <<>>
       /\ box[i].naturalWidth = box[i + 1].naturalWidth
       /\ box[i].borderRadius = 0 /\ box[i + 1].borderRadius = 0) =>
        /\ box'[i].styleWidth = <<box[i].naturalWidth>>
        /\ box'[i + 1].styleWidth = <<box[i].naturalWidth>>
        /\ "connect-b" \in box'[i].classes
        /\ "connect-t" \in box'[i + 1].classes
        /\ box'[i].classes \cap CornerFlags = box[i].classes \cap CornerFlags
        /\ box'[i + 1].classes \cap CornerFlags = box[i + 1].classes \cap CornerFlags ]_vars

(* C5 (as claimed) -- at the end of one pass over freshly measured lines, any
   two adjacent lines classified as connected carry the same forced width,
   the larger of their two natural widths. *)
C5_SameForcedWidth ==
  FirstPassDone =>
    \A k \in 1..(Len(box) - 1) :
      Connected(k) =>
        /\ box[k].styleWidth = box[k + 1].styleWidth
        /\ box[k].styleWidth =
             <<IF box[k].naturalWidth >= box[k + 1].naturalWidth
               THEN box[k].naturalWidth ELSE box[k + 1].naturalWidth>>

(* C5 (amended) -- at the end of one pass over freshly measured lines, any
   two adjacent lines classified as connected both carry a forced width; the
   upper line's is at least the larger of the two natural widths and the
   lower line's is at least the upper line's; when the upper line is not
   also welded to the line above it and the lower line is not also welded to
   the line below it, the two forced widths are equal and are exactly the
   larger of the two natural widths. *)
C5_ForcedWidthAmended ==
  FirstPassDone =>
    \A k \in 1..(Len(box) - 1) :
      Connected(k) =>
        /\ box[k].styleWidth # <<>> /\ box[k + 1].styleWidth # <<>>
        /\ box[k].styleWidth[1] >= box[k].naturalWidth
        /\ box[k].styleWidth[1] >= box[k + 1].naturalWidth
        /\ box[k + 1].styleWidth[1] >= box[k].styleWidth[1]
        /\ ("connect-t" \notin box[k].classes /\ "connect-b" \notin box[k + 1].classes) =>
             /\ box[k].styleWidth = box[k + 1].styleWidth
             /\ box[k].styleWidth[1] \in {box[k].naturalWidth, box[k + 1].naturalWidth}

\* a chain of three welded lines whose upper pair ends with different forced
\* widths, next to a pair that shares the larger natural width
C5_Witness ==
  /\ FirstPassDone /\ Len(box) = 3
  /\ Connected(1) /\ Connected(2)
  /\ box[1].styleWidth # box[2].styleWidth
  /\ box[2].styleWidth = box[3].styleWidth

(* C6 -- line construction: the scale of every line built is the number its
   scale suffix parses to when that number is positive, and 1 in every other
   case (suffix absent, empty, non-numeric, zero or negative). *)
IsPositive(n) == ~n.nan /\ ~n.neg /\ (n.int # <<>> \/ n.frac # <<>>)

C6_ScaleDefault ==
  \A k \in 1..Len(box) :
    LET suffix == ScaleSuffix(Split(text, NL)[k])
        parsed == IF suffix = <<>> THEN NaN ELSE ParseFloat(suffix[1])
    IN box[k].scale = IF IsPositive(parsed) THEN parsed ELSE One

(* C7 -- a caption of a single line, or of none, carries no decoration under
   any alignment: no corner flag, no connect flag, no forced width. *)
C7_SingleLinePlain ==
  Len(box) <= 1 =>
    \A k \in 1..Len(box) : box[k].classes = {} /\ box[k].styleWidth = <<>>

\* a centered one-line caption after its pass and a further direct call
C7_Witness ==
  /\ pc = "idle" /\ calls = MaxCalls /\ align = "center"
  /\ Len(Split(text, NL)) = 1 /\ Len(box) = 1

(* C8 -- a chain of three lines of equal measured width, after one pass: the
   middle line is welded to its predecessor and to its successor, all three
   lines have the same forced width, and the middle line has no rounding
   flag. *)
C8_ThreeEqualWelded ==
  (/\ FirstPassDone /\ Len(box) = 3
   /\ box[1].naturalWidth = box[2].naturalWidth
   /\ box[2].naturalWidth = box[3].naturalWidth) =>
    /\ Connected(1) /\ Connected(2)
    /\ box[1].styleWidth # <<>>
    /\ box[1].styleWidth = box[2].styleWidth
    /\ box[2].styleWidth = box[3].styleWidth
    /\ box[2].classes \cap CornerFlags = {}

(* C9 -- idempotence: once a pass has run over the lines, running
   applyCornerDetection again on them under the same alignment leaves every
   line's flags and forced width as they are. *)
C9_Idempotent ==
  FirstPassDone => ApplyCornerDetection(box, align) = box

(* C10 -- center alignment doubles the tolerance: for every adjacent pair of
   lines, left and right alignment choose the same case; a pair that is
   Case A (Case B) under center is Case A (Case B) under left and right; a
   pair welded under left or right is welded under center. *)
C10_CenterDoubles ==
  \A k \in 1..(Len(box) - 1) :
    LET underLeft == Scenario(box[k], box[k + 1], "left")
        underRight == Scenario(box[k], box[k + 1], "right")
        underCenter == Scenario(box[k], box[k + 1], "center")
    IN /\ underLeft = underRight
       /\ underCenter = "narrower" => underLeft = "narrower"
       /\ underCenter = "wider" => underLeft = "wider"
       /\ underLeft = "similar" => underCenter = "similar"

\* a centered pair with a positive radius was just welded although its width
\* delta makes it Case A under left and right alignment
C10_Witness ==
  /\ pc = "detect" /\ i = 2 /\ calls = 0 /\ align = "center"
  /\ Connected(1)
  /\ box[1].borderRadius > 0
  /\ box[1].naturalWidth - box[1].borderRadius
       >= box[2].naturalWidth + box[2].borderRadius

\* a line as it is built, before any pass has touched it
Fresh(el) == [el EXCEPT !.classes = {}, !.styleWidth = <<>>]

\* the case the step from this state to the next one took, for lines that
\* carried no class of the current line's before
CaseTaken ==
  IF "connect-t" \in box'[i + 1].classes THEN "similar"
  ELSE IF box'[i + 1].classes \cap TopFlags # {} THEN "narrower"
  ELSE "wider"

(* C11 -- within the first pass over freshly built lines, the case taken for
   each adjacent pair is the case of that pair classified in isolation, from
   the alignment and the two lines' natural widths and corner radii alone,
   whatever earlier pairs of the pass attached to the upper line. *)
C11_CaseFromNaturalWidths ==
  [][ (AtPair /\ calls = 0) =>
        CaseTaken = Scenario(Fresh(box[i]), Fresh(box[i + 1]), align) ]_vars

(* C12 -- at the end of the first pass, a line welded in at least one pair
   has as forced width the pairwise maximum of natural widths of the last
   welded pair containing it: max(natural k, natural k+1) when the pair
   (k, k+1) was Case C, otherwise max(natural k-1, natural k). *)
C12_LastPairwiseMax ==
  FirstPassDone =>
    \A k \in 1..Len(box) :
      LET weldedBelow == k < Len(box) /\ Connected(k)
          weldedAbove == k > 1 /\ Connected(k - 1)
          pairMax(a, b) == IF box[a].naturalWidth >= box[b].naturalWidth
                           THEN box[a].naturalWidth ELSE box[b].naturalWidth
      IN (weldedBelow \/ weldedAbove) =>
           box[k].styleWidth =
             <<IF weldedBelow THEN pairMax(k, k + 1) ELSE pairMax(k - 1, k)>>

(* C13 -- once a text-change, key-up or alignment-change event has been
   handled (and applyCornerDetection has not been called directly since),
   the box holds one line per newline-separated record of the current text,
   each with that record's text and scale, and the lines' flags and forced
   widths are those of one pass over those lines taken fresh, under the
   current alignment. *)
C13_FreshLinesOnePass ==
  (pc = "idle" /\ box # <<>> /\ calls = 0) =>
    LET records == Split(text, NL) IN
    /\ Len(box) = Len(records)
    /\ \A k \in 1..Len(box) :
         /\ box[k].text = LineText(records[k])
         /\ box[k].scale = LineScale(records[k])
    /\ box = ApplyCornerDetection([k \in 1..Len(box) |-> Fresh(box[k])], align)

\* three right-aligned lines after their pass: one rounded at the top left,
\* one welded
C13_Witness ==
  /\ pc = "idle" /\ calls = 0 /\ align = "right"
  /\ Len(Split(text, NL)) = 3 /\ Len(box) = 3
  /\ \E k \in 1..3 : "corner-tl" \in box[k].classes
  /\ \E k \in 1..3 : box[k].styleWidth # <<>>

(* C14 -- no line is ever shrunk: in every state, during and after a pass, a
   line that has a forced width has one at least its natural width, and a
   line that was in no Case C pair has no forced width. *)
C14_NeverShrunk ==
  \A k \in 1..Len(box) :
    /\ box[k].styleWidth # <<>> => box[k].styleWidth[1] >= box[k].naturalWidth
    /\ box[k].classes \cap {"connect-t", "connect-b"} = {} => box[k].styleWidth = <<>>

\* in the middle of a pass: one line forced wider than its natural width,
\* the next line not yet in any pair
C14_Witness ==
  /\ pc = "detect" /\ i = 2 /\ Len(box) = 3
  /\ box[2].styleWidth # <<>>
  /\ box[2].styleWidth[1] > box[2].naturalWidth
  /\ box[3].classes = {} /\ box[3].styleWidth = <<>>

====
